---- MODULE Spec2Model ----
(***************************************************************************)
(* A model of gittle's Gittle class (src/gittle/gittle.py): one repository *)
(* handle, its working tree, its persisted staging index, its HEAD, and    *)
(* the staging, status, commit and remote operations of the class.         *)
(*                                                                         *)
(* Time is counted in ticks of 1/TicksPerSec second: os.stat reports a     *)
(* float st_mtime, the index file stores whole seconds, and a commit       *)
(* carries an integer commit_time.                                         *)
(* Relative paths are resolved against the repository root (mv_fs hands    *)
(* them to os.rename as they are, so the process is taken to run with the  *)
(* repository root as its working directory).                              *)
(***************************************************************************)
EXTENDS Integers, Sequences, FiniteSets, TLC

VARIABLES
    files,        \* working tree: path -> [content, mtime], defined on the files that exist
    index,        \* persisted staging index: path -> recorded mtime in whole seconds
    head,         \* what the local HEAD ref resolves to: a commit id, or None
    origin_uri,   \* self.origin_uri, bound at construction
    gitignore,    \* the glob lines of .gitignore read at construction
    call          \* the last call made on the handle, and what it did

vars == <<files, index, head, origin_uri, gitignore, call>>

-----------------------------------------------------------------------------
(* Bounds of the model *)

MaxTick == 4
TicksPerSec == 2
MaxBatch == 2

-----------------------------------------------------------------------------
(* The universe the inputs are drawn from *)

None == "None"

Paths == {"a.txt", "d/y.log"}

\* files of the repository's own metadata directory; the scanner sees them too
GitPaths == {".git/HEAD"}

\* extension and top-level directory of each path, as the regexes see them
Ext == [p \in Paths \cup GitPaths |->
          CASE p = "a.txt"   -> "txt"
            [] p = "d/y.log" -> "log"
            [] OTHER         -> ""]

TopDir == [p \in Paths \cup GitPaths |->
          CASE p = "d/y.log"   -> "d"
            [] p = ".git/HEAD" -> ".git"
            [] OTHER           -> ""]

Commits == {"c1", "c2"}

\* commit_time of each commit, in whole seconds
CommitTime == [c \in Commits |-> IF c = "c1" THEN 1 ELSE 2]

\* the tree of each commit: path -> blob
Tree == [c \in Commits |->
          IF c = "c1"
          THEN [p \in {"a.txt", "d/y.log"} |-> IF p = "a.txt" THEN "p1" ELSE "p2"]
          ELSE [p \in {"a.txt"} |-> "p1"]]

Ticks == (CommitTime["c1"] * TicksPerSec)..MaxTick

\* "o" is the origin a handle may be bound to, "u" a URI given with a call
Uris == {"u"}

Globs == {"*.log"}

\* a batch: up to MaxBatch arguments, none given twice
Batches(S) ==
    {b \in UNION {[1..n -> S] : n \in 1..MaxBatch} :
        \A i, j \in DOMAIN b : b[i] = b[j] => i = j}

Secs(t) == t \div TicksPerSec

-----------------------------------------------------------------------------
(* Functions whose domain is the set of keys present *)

Put(f, k, v) == [x \in DOMAIN f \cup {k} |-> IF x = k THEN v ELSE f[x]]

Drop(f, k) == [x \in DOMAIN f \ {k} |-> f[x]]

Empty == [x \in {} |-> 0]

\* the result of a query: the set it returns, or the exception it raises
Ok(v) == [err |-> "", val |-> v]

Err(e) == [err |-> e, val |-> {}]

-----------------------------------------------------------------------------
(* Ignore matcher and scanner (utils.globers_to_regex, utils.path_filter_regex, *)
(* utils.subpaths)                                                              *)

\* HIDDEN_REGEXES: the repository's own metadata directory
hidden(p) == TopDir[p] = ".git"

\* a glob without a slash matches the file name at any depth
glob_match(g, p) == g = "*.log" /\ Ext[p] = "log"

\* self.ignore_filter: true when any compiled rule matches
ignore_filter(p) == hidden(p) \/ \E g \in gitignore : glob_match(g, p)

\* scan(rootPath, predicate?): every regular file under the root; with a
\* predicate, the paths for which it returns true are excluded
subpaths(fs, filtered) ==
    LET all == DOMAIN fs \cup GitPaths
    IN  IF filtered THEN {p \in all : ~ignore_filter(p)} ELSE all

-----------------------------------------------------------------------------
(* Status queries: properties recomputed from the current state on each access *)

tracked_files == DOMAIN index

raw_files == subpaths(files, FALSE)

ignored_files == subpaths(files, TRUE)

trackable_files == raw_files \ ignored_files

\* untracked_files without the subtraction of the tracked files
untracked_files_all == trackable_files

untracked_files == trackable_files \ tracked_files

\* self.repo[self.repo.head()]: HEAD resolves to nothing before the first commit
last_commit == IF head = None THEN Err("KeyError") ELSE Ok({head})

\* modified_staged_files comparing with >= instead of >
modified_staged_files_ge ==
    IF last_commit.err # "" THEN last_commit
    ELSE Ok({f \in tracked_files : index[f] >= CommitTime[head]})

\* modified_staged_files returning the empty set when there is no commit
modified_staged_files_empty ==
    IF last_commit.err # "" THEN Ok({})
    ELSE Ok({f \in tracked_files : index[f] > CommitTime[head]})

modified_staged_files ==
    IF last_commit.err # "" THEN last_commit
    ELSE LET timestamp == CommitTime[head]
         IN  Ok({f \in tracked_files : index[f] > timestamp})

\* modified_unstaged_files comparing with >= instead of >
modified_unstaged_files_ge ==
    IF last_commit.err # "" THEN last_commit
    ELSE IF \E f \in tracked_files : f \notin DOMAIN files THEN Err("OSError")
    ELSE Ok({f \in tracked_files : files[f].mtime >= CommitTime[head] * TicksPerSec})

\* os.stat raises on a tracked file that is not in the working tree
modified_unstaged_files ==
    IF last_commit.err # "" THEN last_commit
    ELSE IF \E f \in tracked_files : f \notin DOMAIN files THEN Err("OSError")
    ELSE LET timestamp == CommitTime[head]
         IN  Ok({f \in tracked_files : files[f].mtime > timestamp * TicksPerSec})

\* modified_files without the union with the unstaged set
modified_files_staged ==
    IF modified_staged_files.err # "" THEN modified_staged_files
    ELSE IF modified_unstaged_files.err # "" THEN modified_unstaged_files
    ELSE Ok(modified_staged_files.val)

modified_files ==
    IF modified_staged_files.err # "" THEN modified_staged_files
    ELSE IF modified_unstaged_files.err # "" THEN modified_unstaged_files
    ELSE Ok(modified_staged_files.val \cup modified_unstaged_files.val)

-----------------------------------------------------------------------------
(* Staging: what each call leaves in the persisted index *)

\* repo.stage(paths): a path whose file exists gets an entry made from its
\* stat; a path whose file is gone loses its entry; then the index is written
RECURSIVE stage(_, _, _)
stage(idx, fs, paths) ==
    IF paths = <<>> THEN idx
    ELSE LET f == Head(paths)
             nxt == IF f \in DOMAIN fs THEN Put(idx, f, Secs(fs[f].mtime))
                    ELSE Drop(idx, f)
         IN  stage(nxt, fs, Tail(paths))

add(idx, fs, paths) == stage(idx, fs, paths)

\* rm: `index` is opened once and written at the end; each `del self.index[f]`
\* opens the index again and deletes from that copy, which is then dropped
\* filter(lambda f: f in index, files)
in_index(idx, paths) == SelectSeq(paths, LAMBDA f : f \in DOMAIN idx)

rm(idx, paths) ==
    LET opened == idx
        index_files == in_index(opened, paths)
        copies == [i \in 1..Len(index_files) |-> Drop(idx, index_files[i])]
    IN  opened

\* rm_all: self.index.clear() empties one freshly opened index, which is then
\* dropped; self.index.write() opens the index again and writes what it read
rm_all(idx) ==
    LET cleared == Empty
        opened == idx
    IN  opened

\* mv_fs copying the file instead of renaming it
RECURSIVE mv_fs_copy(_, _)
mv_fs_copy(fs, pairs) ==
    IF pairs = <<>> THEN [err |-> "", fs |-> fs]
    ELSE LET old_name == Head(pairs)[1]
             new_name == Head(pairs)[2]
         IN  IF old_name \notin DOMAIN fs THEN [err |-> "OSError", fs |-> fs]
             ELSE mv_fs_copy(Put(fs, new_name, fs[old_name]), Tail(pairs))

\* map(self.mv_fs, files_in_index): os.rename of each pair in turn; a missing
\* source raises and leaves the pairs already renamed as they are
RECURSIVE mv_fs(_, _)
mv_fs(fs, pairs) ==
    IF pairs = <<>> THEN [err |-> "", fs |-> fs]
    ELSE LET old_name == Head(pairs)[1]
             new_name == Head(pairs)[2]
         IN  IF old_name \notin DOMAIN fs THEN [err |-> "OSError", fs |-> fs]
             ELSE IF old_name = new_name THEN mv_fs(fs, Tail(pairs))
             ELSE mv_fs(Drop(Put(fs, new_name, fs[old_name]), old_name), Tail(pairs))

first(pairs) == [i \in 1..Len(pairs) |-> pairs[i][1]]

last(pairs) == [i \in 1..Len(pairs) |-> pairs[i][2]]

\* mv without the filter on the index: every pair given is processed
mv_unfiltered(idx, fs, files_pair) ==
    LET files_in_index == files_pair
        moved == mv_fs(fs, files_in_index)
        old_files == first(files_in_index)
        new_files == last(files_in_index)
        idx1 == add(idx, moved.fs, new_files)
        idx2 == rm(idx1, old_files)
        idx3 == add(idx2, moved.fs, old_files)
    IN  IF moved.err # ""
        THEN [err |-> moved.err, fs |-> moved.fs, idx |-> idx, did |-> files_in_index,
              steps |-> <<idx>>]
        ELSE [err |-> "", fs |-> moved.fs, idx |-> idx3, did |-> files_in_index,
              steps |-> <<idx, idx1, idx2, idx3>>]

\* mv adding the old paths again before it adds the new ones
mv_old_first(idx, fs, files_pair) ==
    LET files_in_index == SelectSeq(files_pair, LAMBDA f : f[1] \in DOMAIN idx)
        moved == mv_fs(fs, files_in_index)
        old_files == first(files_in_index)
        new_files == last(files_in_index)
        idx1 == add(idx, moved.fs, old_files)
        idx2 == rm(idx1, old_files)
        idx3 == add(idx2, moved.fs, new_files)
    IN  IF moved.err # ""
        THEN [err |-> moved.err, fs |-> moved.fs, idx |-> idx, did |-> files_in_index,
              steps |-> <<idx>>]
        ELSE [err |-> "", fs |-> moved.fs, idx |-> idx3, did |-> files_in_index,
              steps |-> <<idx, idx1, idx2, idx3>>]

\* mv: the pairs whose old path is in the index are renamed, the new paths
\* are added, rm is called on the old paths, and the old paths are added
\* again, which drops the entry of each one whose file is gone. `steps` is
\* the persisted index once the renames are done and after each later call
mv(idx, fs, files_pair) ==
    LET files_in_index == SelectSeq(files_pair, LAMBDA f : f[1] \in DOMAIN idx)
        moved == mv_fs(fs, files_in_index)
        old_files == first(files_in_index)
        new_files == last(files_in_index)
        idx1 == add(idx, moved.fs, new_files)
        idx2 == rm(idx1, old_files)
        idx3 == add(idx2, moved.fs, old_files)
    IN  IF moved.err # ""
        THEN [err |-> moved.err, fs |-> moved.fs, idx |-> idx, did |-> files_in_index,
              steps |-> <<idx>>]
        ELSE [err |-> "", fs |-> moved.fs, idx |-> idx3, did |-> files_in_index,
              steps |-> <<idx, idx1, idx2, idx3>>]

-----------------------------------------------------------------------------
(* Remote synchronisation *)

Branches == {None, "dev"}

DEFAULT_BRANCH == "master"

\* what the transport finds at the remote: the commit its HEAD names, None for
\* a remote whose ref set has no HEAD, or no answer at all
RemoteAnswers == Commits \cup {None, "unreachable"}

\* get_client without its check of the URI
get_client_unchecked(uri) ==
    LET origin == IF uri # None THEN uri ELSE origin_uri
    IN  [err |-> "", uri |-> origin,
         calls |-> << <<"get_transport_and_path", origin>> >>]

\* get_client: the per-call URI, else the bound origin; no URI raises before
\* get_transport_and_path is called
get_client(uri) ==
    LET origin == IF uri # None THEN uri ELSE origin_uri
    IN  IF origin = None
        THEN [err |-> "InvalidRemoteUrl", uri |-> None, calls |-> <<>>]
        ELSE [err |-> "", uri |-> origin,
              calls |-> << <<"get_transport_and_path", origin>> >>]

\* build_index_from_tree: every entry of the tree is written to the working
\* tree and entered in the index from the stat of the file written; nothing is
\* deleted. `fresh` tells whether the index starts empty or from the one on disk
build_index_from_tree(fs, idx, tree, now, fresh) ==
    LET base == IF fresh THEN Empty ELSE idx
    IN  [fs  |-> [p \in DOMAIN fs \cup DOMAIN tree |->
                    IF p \in DOMAIN tree THEN [content |-> tree[p], mtime |-> now]
                    ELSE fs[p]],
         idx |-> [p \in DOMAIN base \cup DOMAIN tree |->
                    IF p \in DOMAIN tree THEN Secs(now) ELSE base[p]]]

same(err, calls) ==
    [err |-> err, files |-> files, index |-> index, head |-> head,
     calls |-> calls, ret |-> None]

\* fetch without the update of HEAD
fetch_keep_head(uri, answer, now, fresh) ==
    LET client == get_client(uri)
        fetched == Append(client.calls, <<"client.fetch", client.uri, answer>>)
    IN  IF client.err # "" THEN same(client.err, client.calls)
        ELSE IF answer = "unreachable" THEN same("TransportError", fetched)
        ELSE IF answer = None THEN same("KeyError", fetched)
        ELSE LET built == build_index_from_tree(files, index, Tree[answer], now, fresh)
             IN  [err |-> "", files |-> built.fs, index |-> built.idx, head |-> head,
                  calls |-> Append(fetched, <<"build_index_from_tree", answer>>),
                  ret |-> "self"]

fetch(uri, answer, now, fresh) ==
    LET client == get_client(uri)
        fetched == Append(client.calls, <<"client.fetch", client.uri, answer>>)
    IN  IF client.err # "" THEN same(client.err, client.calls)
        ELSE IF answer = "unreachable" THEN same("TransportError", fetched)
        ELSE IF answer = None THEN same("KeyError", fetched)
        ELSE LET built == build_index_from_tree(files, index, Tree[answer], now, fresh)
             IN  [err |-> "", files |-> built.fs, index |-> built.idx, head |-> answer,
                  calls |-> Append(fetched, <<"build_index_from_tree", answer>>),
                  ret |-> "self"]

\* pull_from leaving HEAD where it is when a branch is named
pull_from_branch(uri, branch_name, answer, now, fresh) ==
    IF branch_name # None THEN fetch_keep_head(uri, answer, now, fresh)
    ELSE fetch(uri, answer, now, fresh)

pull_from(uri, branch_name, answer, now, fresh) == fetch(uri, answer, now, fresh)

pull(uri, branch_name, answer, now, fresh) == pull_from(uri, branch_name, answer, now, fresh)

\* _wants_branch with the default branch whatever branch is asked for
wants_func_master(branch_name, old) ==
    LET refs_key == "refs/heads/" \o DEFAULT_BRANCH
    IN  IF head = None THEN [err |-> "KeyError", wants |-> Empty]
        ELSE [err |-> "", wants |-> (refs_key :> head)]

\* _wants_branch: the selector, applied by the transport to the remote's refs
\* `old`; it reads self.repo.refs["HEAD"] when it is applied, which raises
\* when HEAD resolves to nothing
wants_func(branch_name, old) ==
    LET name == IF branch_name # None THEN branch_name ELSE DEFAULT_BRANCH
        refs_key == "refs/heads/" \o name
    IN  IF head = None THEN [err |-> "KeyError", wants |-> Empty]
        ELSE [err |-> "", wants |-> (refs_key :> head)]

\* push_to: the selector is built first, then the client is resolved, then
\* send_pack is called with the selector, which it applies to the remote's refs
push_to(uri, branch_name, answer) ==
    LET selector == wants_func(branch_name, answer)
        client == get_client(uri)
        sent == Append(client.calls, <<"send_pack", client.uri, selector.wants>>)
    IN  IF client.err # "" THEN same(client.err, client.calls)
        ELSE IF answer = "unreachable" THEN same("TransportError", sent)
        ELSE IF selector.err # "" THEN same(selector.err, sent)
        ELSE same("", sent)

push(uri, branch_name, answer) == push_to(uri, branch_name, answer)

\* clone_remote without the creation of the directory
clone_remote_nomkdir(origin, local_path, mkdir, answer, now, fresh) ==
    LET inited == << <<"DRepo.init">> >>
        fetched == fetch(origin, answer, now, fresh)
    IN  IF local_path = "absent"
        THEN [err |-> "OSError", origin_uri |-> None, files |-> files, index |-> index,
              head |-> head, calls |-> inited, ret |-> None]
        ELSE [err |-> fetched.err,
              origin_uri |-> IF fetched.err = "" THEN origin ELSE None,
              files |-> fetched.files, index |-> fetched.index, head |-> fetched.head,
              calls |-> inited \o fetched.calls,
              ret |-> IF fetched.err = "" THEN "repo" ELSE None]

\* clone_remote, a class method: local_path is "absent" or "present" as
\* os.path.exists finds it; DRepo.init raises when the directory is not there.
\* The handle is constructed on the new repository with `origin` bound, and
\* its fetch() is called without a URI, which get_client resolves to `origin`:
\* that is fetch(origin) from the state of a repository just initialised. A
\* call that raises returns no handle, so nothing is bound.
clone_remote(origin, local_path, mkdir, answer, now, fresh) ==
    LET made == IF mkdir /\ local_path = "absent" THEN << <<"os.makedirs">> >> ELSE <<>>
        inited == Append(made, <<"DRepo.init">>)
        fetched == fetch(origin, answer, now, fresh)
    IN  IF local_path = "absent" /\ ~mkdir
        THEN [err |-> "OSError", origin_uri |-> None, files |-> files, index |-> index,
              head |-> head, calls |-> inited, ret |-> None]
        ELSE [err |-> fetched.err,
              origin_uri |-> IF fetched.err = "" THEN origin ELSE None,
              files |-> fetched.files, index |-> fetched.index, head |-> fetched.head,
              calls |-> inited \o fetched.calls,
              ret |-> IF fetched.err = "" THEN "repo" ELSE None]

-----------------------------------------------------------------------------
(* Commit *)

DEFAULT_MESSAGE == "**No Message**"

\* the keyword parameters repo.do_commit accepts
do_commit_params ==
    {"message", "committer", "author", "commit_timestamp", "commit_timezone",
     "author_timestamp", "author_timezone", "tree", "encoding"}

\* a keyword the callee does not declare raises TypeError before its body runs
do_commit(kwargs) ==
    IF DOMAIN kwargs \subseteq do_commit_params THEN "" ELSE "TypeError"

_commit(commiter, author, message) ==
    LET msg == IF message \in {None, ""} THEN DEFAULT_MESSAGE ELSE message
        kwargs == [message |-> msg, author |-> author, commmiter |-> commiter]
    IN  [err |-> do_commit(kwargs), kwargs |-> kwargs]

commit(name, email, message) ==
    LET user_info == [name |-> name, email |-> email]
    IN  _commit(user_info, user_info, message)

-----------------------------------------------------------------------------
(* The handle after construction, and one action per operation *)

\* op and arg: the method and its arguments; did: the arguments it found in the
\* index and acted on; err: the exception raised, "" for none; calls: the
\* collaborator calls made, in order; ret: what was returned
Call(op, arg, did, err, calls, ret) ==
    [op |-> op, arg |-> arg, did |-> did, err |-> err, calls |-> calls, ret |-> ret]

NoCall == Call("", <<>>, <<>>, "", <<>>, None)

\* Gittle.init(path), or Gittle(path, origin_uri): a repository without commits
Init ==
    /\ files = Empty
    /\ index = Empty
    /\ head = None
    /\ origin_uri \in {None, "o"}
    /\ gitignore \in SUBSET Globs
    /\ call = NoCall

\* the user writes or touches a file of the working tree
WriteFile ==
    \E p \in Paths, t \in Ticks :
        /\ files' = Put(files, p, [content |-> "w", mtime |-> t])
        /\ call' = NoCall
        /\ UNCHANGED <<index, head, origin_uri, gitignore>>

\* the user deletes a file of the working tree
DeleteFile ==
    \E p \in DOMAIN files :
        /\ files' = Drop(files, p)
        /\ call' = NoCall
        /\ UNCHANGED <<index, head, origin_uri, gitignore>>

Add ==
    \E paths \in Batches(Paths) :
        /\ index' = add(index, files, paths)
        /\ call' = Call("add", paths, <<>>, "", <<>>, None)
        /\ UNCHANGED <<files, head, origin_uri, gitignore>>

Rm ==
    \E paths \in Batches(Paths) :
        /\ index' = rm(index, paths)
        /\ call' = Call("rm", paths, in_index(index, paths), "", <<>>, None)
        /\ UNCHANGED <<files, head, origin_uri, gitignore>>

RmAll ==
    /\ index' = rm_all(index)
    /\ call' = Call("rm_all", <<>>, <<>>, "", <<>>, None)
    /\ UNCHANGED <<files, head, origin_uri, gitignore>>

Mv ==
    \E files_pair \in Batches(Paths \X Paths) :
        LET r == mv(index, files, files_pair)
        IN  /\ files' = r.fs
            /\ index' = r.idx
            /\ call' = Call("mv", files_pair, r.did, r.err, <<>>, None)
            /\ UNCHANGED <<head, origin_uri, gitignore>>

\* the inputs a remote call reads: the remote's answer, and, when a tree is
\* materialised, the clock and how the index is opened
Remote == {<<a, t, f>> \in RemoteAnswers \X Ticks \X BOOLEAN :
             a \notin Commits => (t = MaxTick /\ f)}

Fetch ==
    \E uri \in Uris \cup {None}, rem \in Remote :
        LET r == fetch(uri, rem[1], rem[2], rem[3])
        IN  /\ files' = r.files
            /\ index' = r.index
            /\ head' = r.head
            /\ call' = Call("fetch", <<uri>>, <<>>, r.err, r.calls, r.ret)
            /\ UNCHANGED <<origin_uri, gitignore>>

Pull ==
    \E uri \in Uris \cup {None}, branch_name \in Branches, rem \in Remote :
        LET r == pull(uri, branch_name, rem[1], rem[2], rem[3])
        IN  /\ files' = r.files
            /\ index' = r.index
            /\ head' = r.head
            /\ call' = Call("pull", <<uri, branch_name>>, <<>>, r.err, r.calls, r.ret)
            /\ UNCHANGED <<origin_uri, gitignore>>

Push ==
    \E uri \in Uris \cup {None}, branch_name \in Branches, answer \in RemoteAnswers \ {None} :
        LET r == push(uri, branch_name, answer)
        IN  /\ files' = r.files
            /\ index' = r.index
            /\ head' = r.head
            /\ call' = Call("push", <<uri, branch_name>>, <<>>, r.err, r.calls, r.ret)
            /\ UNCHANGED <<origin_uri, gitignore>>

\* do_commit raises on the keyword it is handed, so no commit is ever made
Commit ==
    \E name \in {None, "n"}, email \in {"e"}, message \in {None, "", "m"} :
        LET r == commit(name, email, message)
        IN  /\ r.err # ""
            /\ call' = Call("commit", <<name, email, message>>, <<>>, r.err,
                            << <<"do_commit", r.kwargs>> >>, None)
            /\ UNCHANGED <<files, index, head, origin_uri, gitignore>>

\* the staging operations, the working-tree changes around them, and fetch
StagingNext ==
    \/ WriteFile
    \/ DeleteFile
    \/ Add
    \/ Rm
    \/ RmAll
    \/ Mv
    \/ Fetch

\* the remote operations and commit, over working trees the user edits
SyncNext ==
    \/ WriteFile
    \/ DeleteFile
    \/ Fetch
    \/ Pull
    \/ Push
    \/ Commit

Next == StagingNext \/ SyncNext

Spec == Init /\ [][Next]_vars

\* staging is followed on a handle bound to an origin
InitStaging == Init /\ origin_uri = "o"

SpecStaging == InitStaging /\ [][StagingNext]_vars

SpecSync == Init /\ [][SyncNext]_vars

\* before clone_remote: no handle, nothing bound, no repository; the directory
\* is absent, or present and possibly with a file and a .gitignore in it
InitClone ==
    /\ files \in {Empty, [p \in {"a.txt"} |-> [content |-> "w", mtime |-> MaxTick]]}
    /\ index = Empty
    /\ head = None
    /\ origin_uri = None
    /\ gitignore \in SUBSET Globs
    /\ call = NoCall

\* the states local_path can be in, given what is in the directory
LocalPaths == IF files = Empty /\ gitignore = {} THEN {"absent", "present"} ELSE {"present"}

Clone ==
    /\ origin_uri = None
    /\ call = NoCall
    /\ \E origin \in {"o", None}, local_path \in LocalPaths, mkdir \in BOOLEAN, rem \in Remote :
          LET r == clone_remote(origin, local_path, mkdir, rem[1], rem[2], rem[3])
          IN  /\ files' = r.files
              /\ index' = r.index
              /\ head' = r.head
              /\ origin_uri' = r.origin_uri
              /\ call' = Call("clone_remote", <<origin, local_path, mkdir>>, <<>>,
                              r.err, r.calls, r.ret)
              /\ UNCHANGED gitignore

\* what follows on the handle clone_remote returned
ClonedWriteFile == origin_uri # None /\ WriteFile

ClonedDeleteFile == origin_uri # None /\ DeleteFile

ClonedFetch == origin_uri # None /\ Fetch

CloneNext ==
    \/ Clone
    \/ ClonedWriteFile
    \/ ClonedDeleteFile
    \/ ClonedFetch

SpecClone == InitClone /\ [][CloneNext]_vars

-----------------------------------------------------------------------------
(* Properties *)

Range(s) == {s[i] : i \in DOMAIN s}

\* the working tree holds exactly the files of the tree, with the tree's content
MatchesTree(fs, tree) ==
    /\ DOMAIN fs = DOMAIN tree
    /\ \A p \in DOMAIN tree : fs[p].content = tree[p]

\* C1: after a fetch from a remote whose HEAD differs from the local HEAD, the
\* working tree is exactly the tree of the new HEAD commit: every file of the
\* tree is present with the tree's content, and every file that was there
\* before and is not in the tree has been removed.
C1_FetchRebuildsWorkingTree ==
    [][(call'.op = "fetch" /\ call'.err = "" /\ head' # head)
         => MatchesTree(files', Tree[head'])]_vars

\* C2: after mv([(a, b)]) on an index that contains a has completed, b is
\* tracked, a is not, and the working tree has b and no longer has a
\* (a and b two distinct paths).
C2_MvRenames ==
    [][\A a, b \in Paths :
         (/\ a # b
          /\ a \in DOMAIN index
          /\ call'.op = "mv"
          /\ call'.arg = << <<a, b>> >>
          /\ call'.err = "")
         => (/\ b \in tracked_files'
             /\ a \notin tracked_files'
             /\ a \notin DOMAIN files'
             /\ b \in DOMAIN files')]_vars

C2_Witness ==
    /\ call.op = "mv"
    /\ call.arg = << <<"a.txt", "d/y.log">> >>
    /\ call.did = call.arg
    /\ call.err = ""
    /\ "d/y.log" \in tracked_files
    /\ "a.txt" \notin tracked_files
    /\ DOMAIN files = {"d/y.log"}

\* C3: after rm(paths), no path of the batch that was in the staging index is
\* still a key of the persisted index, and every entry the batch does not name
\* is unchanged.
C3_RmRemoves ==
    [][call'.op = "rm"
         => (/\ \A f \in Range(call'.arg) : f \in DOMAIN index => f \notin DOMAIN index'
             /\ \A f \in DOMAIN index \ Range(call'.arg) :
                    f \in DOMAIN index' /\ index'[f] = index[f])]_vars


\* the last commit's timestamp in ticks, for comparison with a file's mtime
CutoffTicks == CommitTime[head] * TicksPerSec

\* C4 as stated: in a repository with a commit, a file staged with add is, right
\* after the add, in tracked_files and in none of modified_staged_files,
\* modified_unstaged_files and modified_files, whatever its mtime.
C4_AddedNotModified ==
    (call.op = "add" /\ head # None)
      => \A f \in Range(call.arg) \cap DOMAIN files :
            /\ f \in tracked_files
            /\ f \notin modified_staged_files.val
            /\ f \notin modified_unstaged_files.val
            /\ f \notin modified_files.val

\* C4 as amended: right after the add the file is in tracked_files; it is in
\* modified_staged_files exactly when the whole seconds of its mtime exceed the
\* last commit's timestamp, and in modified_unstaged_files and modified_files,
\* whenever these return a set, exactly when its mtime exceeds that timestamp.
C4_AddedModifiedByTime ==
    (call.op = "add" /\ head # None)
      => \A f \in Range(call.arg) \cap DOMAIN files :
            /\ f \in tracked_files
            /\ modified_staged_files.err = ""
            /\ f \in modified_staged_files.val <=> Secs(files[f].mtime) > CommitTime[head]
            /\ modified_unstaged_files.err = ""
                 => (f \in modified_unstaged_files.val <=> files[f].mtime > CutoffTicks)
            /\ modified_files.err = ""
                 => (f \in modified_files.val <=> files[f].mtime > CutoffTicks)

C4_Witness ==
    /\ call.op = "add"
    /\ head # None
    /\ modified_files.err = ""
    /\ \E f \in Range(call.arg) \cap DOMAIN files :
          files[f].mtime = CutoffTicks /\ f \notin modified_files.val
    /\ \E f \in Range(call.arg) \cap DOMAIN files :
          files[f].mtime > CutoffTicks /\ f \in modified_files.val

\* C5: trackable_files contains no path for which the ignore predicate returns
\* true, the scanner called with a predicate leaving out the paths for which
\* the predicate returns true.
C5_TrackableExcludesIgnored ==
    \A p \in trackable_files : ~ignore_filter(p)

\* C6: a file that is in the staging index and has been deleted from the
\* working tree is tracked, is not untracked, and (in a repository with a
\* commit) modified_unstaged_files and modified_files return a set that
\* contains it.
C6_DeletedTrackedIsModified ==
    \A f \in DOMAIN index \ DOMAIN files :
        /\ f \in tracked_files
        /\ f \notin untracked_files
        /\ head # None
             => (/\ modified_unstaged_files.err = ""
                 /\ f \in modified_unstaged_files.val
                 /\ modified_files.err = ""
                 /\ f \in modified_files.val)

\* C7: commit(name, email, message) calls the storage collaborator's commit
\* routine once, with the identity made of name and email as author and as
\* committer and with the message, or '**No Message**' for none, and returns.
C7_CommitCallsCollaborator ==
    call.op = "commit"
      => LET identity == [name |-> call.arg[1], email |-> call.arg[2]]
             message == IF call.arg[3] \in {None, ""} THEN "**No Message**" ELSE call.arg[3]
         IN  /\ Len(call.calls) = 1
             /\ call.calls[1][1] = "do_commit"
             /\ call.calls[1][2].message = message
             /\ call.calls[1][2].author = identity
             /\ "committer" \in DOMAIN call.calls[1][2]
             /\ call.calls[1][2].committer = identity
             /\ call.err = ""

\* C8: with no per-call URI and no bound origin, push, fetch and pull raise
\* InvalidRemoteUrl before the transport is resolved or any network call is
\* made, and leave HEAD, the index and the working tree as they were.
C8_NoUriFails ==
    [][(/\ call'.op \in {"push", "fetch", "pull"}
        /\ call'.arg[1] = None
        /\ origin_uri = None)
         => (/\ call'.err = "InvalidRemoteUrl"
             /\ call'.calls = <<>>
             /\ UNCHANGED <<files, index, head>>)]_vars

C8_Witness ==
    /\ call.op = "push"
    /\ call.arg[1] = None
    /\ origin_uri = None
    /\ call.err = "InvalidRemoteUrl"
    /\ head # None
    /\ DOMAIN index # {}

\* C9: after a successful fetch, HEAD is the HEAD the remote reported, the
\* remote consulted is the per-call URI when one is given and the bound origin
\* otherwise, and the handle itself is returned.
C9_FetchSetsHead ==
    (call.op = "fetch" /\ call.err = "")
      => LET wanted == IF call.arg[1] # None THEN call.arg[1] ELSE origin_uri
         IN  /\ call.calls[1] = <<"get_transport_and_path", wanted>>
             /\ call.calls[2][1] = "client.fetch"
             /\ call.calls[2][2] = wanted
             /\ head = call.calls[2][3]
             /\ call.ret = "self"

C9_Witness ==
    /\ call.op = "fetch"
    /\ call.err = ""
    /\ call.arg = <<"u">>
    /\ origin_uri = "o"
    /\ call.calls[2] = <<"client.fetch", "u", "c2">>
    /\ head = "c2"

\* C10: in every reachable state trackable_files = raw_files - ignored_files
\* and untracked_files = trackable_files - tracked_files; untracked_files and
\* tracked_files are disjoint and untracked_files is a subset of raw_files.
C10_SetAlgebra ==
    /\ \A p \in Paths \cup GitPaths :
          /\ p \in trackable_files <=> (p \in raw_files /\ p \notin ignored_files)
          /\ p \in untracked_files <=> (p \in trackable_files /\ p \notin DOMAIN index)
    /\ trackable_files \subseteq Paths \cup GitPaths
    /\ untracked_files \subseteq raw_files
    /\ untracked_files \cap tracked_files = {}

C10_Witness ==
    /\ call.op = "mv"
    /\ call.did # <<>>
    /\ call.did[1][1] # call.did[1][2]
    /\ call.err = ""
    /\ head # None
    /\ tracked_files \cap trackable_files # {}
    /\ untracked_files # {}

\* C11: in every state with a commit in which modified_staged_files,
\* modified_unstaged_files and modified_files all return a set, modified_files
\* is the union of the other two, and both of them are subsets of
\* tracked_files.
C11_ModifiedIsUnion ==
    (/\ head # None
     /\ modified_staged_files.err = ""
     /\ modified_unstaged_files.err = ""
     /\ modified_files.err = "")
      => /\ modified_files.val = modified_staged_files.val \cup modified_unstaged_files.val
         /\ modified_staged_files.val \subseteq tracked_files
         /\ modified_unstaged_files.val \subseteq tracked_files

\* the two sets differ and neither is empty
C11_Witness ==
    /\ head # None
    /\ modified_files.err = ""
    /\ modified_staged_files.val = {"a.txt"}
    /\ modified_unstaged_files.val = {"a.txt", "d/y.log"}
    /\ modified_files.val = {"a.txt", "d/y.log"}

\* C12: with T the last commit's timestamp, modification is decided by a
\* strict greater-than: a tracked file is in modified_staged_files exactly
\* when the time of its index entry is greater than T, and, when
\* modified_unstaged_files returns a set, a tracked file is in it when its
\* working-tree mtime is greater than T and is not in it when its mtime is T
\* or less.
C12_StrictComparison ==
    head # None
      => /\ modified_staged_files.err = ""
         /\ \A f \in tracked_files :
               f \in modified_staged_files.val <=> index[f] > CommitTime[head]
         /\ modified_unstaged_files.err = ""
              => \A f \in tracked_files :
                    /\ files[f].mtime > CutoffTicks => f \in modified_unstaged_files.val
                    /\ files[f].mtime = CutoffTicks => f \notin modified_unstaged_files.val
                    /\ files[f].mtime < CutoffTicks => f \notin modified_unstaged_files.val

\* a tracked file touched exactly at T is reported by neither query while a
\* file touched one tick later is reported as unstaged
C12_Witness ==
    /\ head # None
    /\ DOMAIN index = Paths
    /\ DOMAIN files = Paths
    /\ files["a.txt"].mtime = CutoffTicks
    /\ index["a.txt"] = CommitTime[head]
    /\ files["d/y.log"].mtime = CutoffTicks + 1
    /\ modified_unstaged_files = Ok({"d/y.log"})
    /\ modified_staged_files = Ok({})

\* C13: in a repository without commits, each of modified_staged_files,
\* modified_unstaged_files and modified_files raises the error of the failed
\* last-commit lookup and returns no set, whether or not the index has entries.
C13_NoCommitQueriesRaise ==
    head = None
      => /\ last_commit.err # ""
         /\ modified_staged_files = last_commit
         /\ modified_unstaged_files = last_commit
         /\ modified_files = last_commit

\* no commit, one file staged and present in the working tree
C13_Witness ==
    /\ head = None
    /\ call.op = "add"
    /\ DOMAIN index = {"a.txt"}
    /\ "a.txt" \in DOMAIN files
    /\ modified_files.err = "KeyError"

\* C18: rm(paths) with paths that are in the index and paths that are not
\* raises nothing and leaves as the persisted index the index it found less
\* exactly the paths of the batch that were in it; a batch of absent paths
\* changes nothing.
C18_RmPersistsDeletions ==
    [][call'.op = "rm"
         => LET present == Range(call'.arg) \cap DOMAIN index
            IN  /\ call'.err = ""
                /\ call'.did = in_index(index, call'.arg)
                /\ index' = [f \in DOMAIN index \ present |-> index[f]]]_vars

\* C20: after rm_all() the persisted index has no entries, so tracked_files
\* is empty.
C20_RmAllEmpties ==
    call.op = "rm_all" => (DOMAIN index = {} /\ tracked_files = {})

\* C17: during mv of a pair (old, new) of two distinct paths, old in the
\* index, that shares no path with another pair of the call: the persisted
\* index found once the file is renamed and the index after each later step
\* have old or new as a key; when the call completes, the new path was added
\* while old was still a key, and the index the call leaves has new and does
\* not have old.
C17_MvKeepsOneTracked ==
    [][call'.op = "mv"
         => LET r == mv(index, files, call'.arg)
                n == Len(r.steps)
            IN  /\ index' = r.steps[n]
                /\ \A i \in DOMAIN r.did :
                      LET old == r.did[i][1]
                          new == r.did[i][2]
                      IN  (/\ old # new
                           /\ \A j \in DOMAIN r.did \ {i} :
                                 {r.did[j][1], r.did[j][2]} \cap {old, new} = {})
                          => /\ \A k \in 1..n :
                                   old \in DOMAIN r.steps[k] \/ new \in DOMAIN r.steps[k]
                             /\ r.err = ""
                                  => /\ old \in DOMAIN r.steps[1]
                                     /\ {old, new} \subseteq DOMAIN r.steps[2]
                                     /\ new \in DOMAIN index'
                                     /\ old \notin DOMAIN index']_vars

\* d/y.log, tracked, has been moved to a.txt, which was not tracked
C17_Witness ==
    /\ call.op = "mv"
    /\ call.arg = << <<"d/y.log", "a.txt">> >>
    /\ call.did = call.arg
    /\ call.err = ""
    /\ DOMAIN index = {"a.txt"}
    /\ DOMAIN files = {"a.txt"}

\* C19: in an mv batch, the pairs whose old path is not in the index are
\* skipped entirely: the call renames, adds and removes exactly what it would
\* with the other pairs alone, and a call whose pairs are all skipped changes
\* neither the working tree nor the index.
C19_MvSkipsUntracked ==
    [][call'.op = "mv"
         => LET kept == SelectSeq(call'.arg, LAMBDA f : f[1] \in DOMAIN index)
                alone == mv(index, files, kept)
            IN  /\ call'.did = kept
                /\ call'.err = alone.err
                /\ files' = alone.fs
                /\ index' = alone.idx
                /\ kept = <<>> => (files' = files /\ index' = index /\ call'.err = "")]_vars

\* (d/y.log, a.txt) was skipped although the file d/y.log existed, as there
\* is no a.txt left after the call; (a.txt, d/y.log) was processed
C19_Witness ==
    /\ call.op = "mv"
    /\ call.arg = << <<"d/y.log", "a.txt">>, <<"a.txt", "d/y.log">> >>
    /\ call.did = << <<"a.txt", "d/y.log">> >>
    /\ call.err = ""
    /\ DOMAIN files = {"d/y.log"}
    /\ DOMAIN index = {"d/y.log"}
    /\ files["d/y.log"].content = "p1"

\* C15: in a repository with a commit, the selector push builds returns, for
\* every state of the remote's refs handed to it, exactly one update, from
\* "refs/heads/<branch>" ("refs/heads/master" when no branch is given) to the
\* local HEAD; a push that resolves a client calls send_pack exactly once,
\* with that selector; and push changes nothing of the local state.
C15_PushSelector ==
    [][call'.op = "push"
         => LET branch_name == call'.arg[2]
                refs_key == IF branch_name = None THEN "refs/heads/master"
                            ELSE "refs/heads/" \o branch_name
                sends == SelectSeq(call'.calls, LAMBDA c : c[1] = "send_pack")
            IN  /\ UNCHANGED <<files, index, head, origin_uri, gitignore>>
                /\ head # None
                     => \A old \in RemoteAnswers :
                           /\ wants_func(branch_name, old).err = ""
                           /\ DOMAIN wants_func(branch_name, old).wants = {refs_key}
                           /\ wants_func(branch_name, old).wants[refs_key] = head
                /\ call'.err # "InvalidRemoteUrl"
                     => /\ Len(sends) = 1
                        /\ head # None => sends[1][3] = wants_func(branch_name, None).wants
                /\ call'.err = "" => head # None]_vars

\* a completed push of branch dev from a repository whose HEAD is c2
C15_Witness ==
    /\ call.op = "push"
    /\ call.arg = <<"u", "dev">>
    /\ call.err = ""
    /\ head = "c2"
    /\ call.calls = << <<"get_transport_and_path", "u">>,
                       <<"send_pack", "u", ("refs/heads/dev" :> "c2")>> >>

\* C16: pull(origin_uri, branch_name) is fetch(origin_uri): from the same
\* state and against the same remote the two leave the same HEAD, working
\* tree and index, return the same handle, raise the same error and make the
\* same collaborator calls, whatever branch_name is.
C16_PullIsFetch ==
    [][call'.op = "pull"
         => \E rem \in Remote :
               LET r == fetch(call'.arg[1], rem[1], rem[2], rem[3])
               IN  /\ files' = r.files
                   /\ index' = r.index
                   /\ head' = r.head
                   /\ call'.err = r.err
                   /\ call'.calls = r.calls
                   /\ call'.ret = r.ret
                   /\ \A b \in Branches :
                         pull(call'.arg[1], b, rem[1], rem[2], rem[3]) = r]_vars

\* a pull that names a branch and moves HEAD from c1 to c2
C16_Witness ==
    /\ call.op = "pull"
    /\ call.arg = <<None, "dev">>
    /\ call.err = ""
    /\ call.calls[2] = <<"client.fetch", "o", "c2">>
    /\ head = "c2"
    /\ "d/y.log" \in DOMAIN index

\* C14: clone_remote(origin_uri, local_path) creates local_path when it is
\* absent and mkdir is set, and only then; initialises a repository there
\* with DRepo.init; and a call that returns has made exactly one fetch, after
\* the initialisation, against origin_uri: the handle returned is bound to
\* origin_uri and its HEAD is the HEAD the remote reported.
C14_CloneRemote ==
    call.op = "clone_remote"
      => LET origin == call.arg[1]
             local_path == call.arg[2]
             mkdir == call.arg[3]
             fetches == {i \in DOMAIN call.calls : call.calls[i][1] = "client.fetch"}
             inits == {i \in DOMAIN call.calls : call.calls[i][1] = "DRepo.init"}
             makes == {i \in DOMAIN call.calls : call.calls[i][1] = "os.makedirs"}
         IN  /\ makes = IF local_path = "absent" /\ mkdir THEN {1} ELSE {}
             /\ inits = IF makes = {} THEN {1} ELSE {2}
             /\ call.err = ""
                  => /\ Cardinality(fetches) = 1
                     /\ \A i \in fetches :
                           /\ \A j \in inits : j < i
                           /\ call.calls[i][2] = origin
                           /\ head = call.calls[i][3]
                     /\ origin_uri = origin
                     /\ call.ret = "repo"

\* a clone into a directory that did not exist, of a remote whose HEAD is c1
C14_Witness ==
    /\ call.op = "clone_remote"
    /\ call.arg = <<"o", "absent", TRUE>>
    /\ call.err = ""
    /\ call.calls[1] = <<"os.makedirs">>
    /\ call.calls[4] = <<"client.fetch", "o", "c1">>
    /\ origin_uri = "o"
    /\ head = "c1"
    /\ DOMAIN files = Paths

====
